---- MODULE Spec2Model ----
(***************************************************************************)
(* Model of dvc/system.py (class System: hardlink, symlink, reflink,       *)
(* inode, is_symlink, is_hardlink) over a POSIX directory of inodes, and   *)
(* of dvc/repo/experiments/init.py (init, _check_stage_exists).            *)
(***************************************************************************)
EXTENDS Integers, Sequences, FiniteSets, TLC

\* ------------------------------------------------------------- bounds
\* inodes the filesystem holds; creating one more fails with ENOSPC
NumInodes == 2

\* the names of one directory
Paths == {"a.txt", "b.txt", "c.txt"}
Inodes == 1..NumInodes
\* the value of an absent directory entry: no inode has this number
NoIno == NumInodes + 1
\* file contents: 0 is the empty (truncated) file
Contents == {0, 1, 2}
Platforms == {"Linux", "Darwin", "Other"}
\* process file-creation masks the environment may set (0o022, 0o077)
Umasks == {18, 63}

\* 0o666, the mode reflink resets the target to and open() creates files with
MODE_RW == 438

VARIABLES fs, umask, platform, last, dvcfile, ignored, call

fsvars == <<fs, umask, platform, last>>
wizvars == <<dvcfile, ignored, call>>
vars == <<fs, umask, platform, last, dvcfile, ignored, call>>

\* ------------------------------------------------------------- helpers
FreeInode == [kind |-> "free", data |-> 0, link |-> "", nlink |-> 0, mode |-> 0]

EmptyFs == [dir |-> [p \in Paths |-> NoIno], ino |-> [i \in Inodes |-> FreeInode]]

\* Python's a & ~b on non-negative integers
RECURSIVE AndNot(_, _)
AndNot(a, b) ==
    IF a = 0 THEN 0
    ELSE (IF a % 2 = 1 /\ b % 2 = 0 THEN 1 ELSE 0) + 2 * AndNot(a \div 2, b \div 2)

NoSpace(f) == \A i \in Inodes : f.ino[i].kind # "free"

\* the lowest inode number not in use
NewIno(f) == CHOOSE i \in Inodes : f.ino[i].kind = "free" /\ \A j \in Inodes : f.ino[j].kind = "free" => i <= j

\* path resolution following symlinks (stat, open, chmod)
RECURSIVE Walk(_, _, _)
Walk(f, p, fuel) ==
    IF f.dir[p] = NoIno THEN [err |-> "ENOENT", ino |-> NoIno, name |-> p]
    ELSE IF f.ino[f.dir[p]].kind = "symlink"
         THEN IF fuel = 0
              THEN [err |-> "ELOOP", ino |-> NoIno, name |-> p]
              ELSE Walk(f, f.ino[f.dir[p]].link, fuel - 1)
         ELSE [err |-> "OK", ino |-> f.dir[p], name |-> p]

Resolve(f, p) == Walk(f, p, Cardinality(Paths))

\* a new directory entry `name` for a fresh inode
Create(f, name, node) ==
    LET i == NewIno(f) IN
    [dir |-> [f.dir EXCEPT ![name] = i], ino |-> [f.ino EXCEPT ![i] = node]]

\* link(2): a second directory entry for the inode of `source`
os_link(f, follow, source, link_name) ==
    LET s == IF follow THEN Resolve(f, source)
             ELSE IF f.dir[source] = NoIno
                  THEN [err |-> "ENOENT", ino |-> NoIno, name |-> source]
                  ELSE [err |-> "OK", ino |-> f.dir[source], name |-> source]
    IN IF s.err # "OK" THEN [fs |-> f, err |-> s.err]
       ELSE IF f.dir[link_name] # NoIno THEN [fs |-> f, err |-> "EEXIST"]
       ELSE [fs |-> [dir |-> [f.dir EXCEPT ![link_name] = s.ino],
                     ino |-> [f.ino EXCEPT ![s.ino].nlink = @ + 1]],
             err |-> "OK"]

\* symlink(2): a new symlink inode holding the text of `source`
os_symlink(f, source, link_name) ==
    IF f.dir[link_name] # NoIno THEN [fs |-> f, err |-> "EEXIST"]
    ELSE IF NoSpace(f) THEN [fs |-> f, err |-> "ENOSPC"]
    ELSE [fs |-> Create(f, link_name, [kind |-> "symlink", data |-> 0, link |-> source,
                                      nlink |-> 1, mode |-> 0]),
          err |-> "OK"]

\* unlink(2): removes the entry itself, never what a symlink points to
os_unlink(f, path) ==
    IF f.dir[path] = NoIno THEN [fs |-> f, err |-> "ENOENT"]
    ELSE LET i == f.dir[path] IN
         [fs |-> [dir |-> [f.dir EXCEPT ![path] = NoIno],
                  ino |-> [f.ino EXCEPT ![i] = IF @.nlink = 1 THEN FreeInode
                                                ELSE [@ EXCEPT !.nlink = @ - 1]]],
          err |-> "OK"]

\* open(path, "wb+"): O_RDWR|O_CREAT|O_TRUNC, created with 0o666 & ~process umask
open_wb(f, path, mask) ==
    LET r == Resolve(f, path) IN
    IF r.err = "ELOOP" THEN [fs |-> f, err |-> "ELOOP", ino |-> NoIno]
    ELSE IF r.err = "ENOENT" /\ NoSpace(f) THEN [fs |-> f, err |-> "ENOSPC", ino |-> NoIno]
    ELSE IF r.err = "ENOENT"
         THEN LET g == Create(f, r.name, [kind |-> "file", data |-> 0, link |-> "", nlink |-> 1,
                                          mode |-> AndNot(MODE_RW, mask)])
              IN [fs |-> g, err |-> "OK", ino |-> g.dir[r.name]]
         ELSE [fs |-> [f EXCEPT !.ino[r.ino].data = 0], err |-> "OK", ino |-> r.ino]

\* chmod(2), following symlinks
os_chmod(f, path, mode) ==
    LET r == Resolve(f, path) IN
    IF r.err # "OK" THEN [fs |-> f, err |-> r.err]
    ELSE [fs |-> [f EXCEPT !.ino[r.ino].mode = mode], err |-> "OK"]

\* ------------------------------------------------------------- observers
\* os.lstat: the entry's own inode, symlinks not followed
os_lstat(f, path) ==
    IF f.dir[path] = NoIno THEN [err |-> "ENOENT", ino |-> NoIno, nlink |-> 0, kind |-> "free"]
    ELSE [err |-> "OK", ino |-> f.dir[path], nlink |-> f.ino[f.dir[path]].nlink,
          kind |-> f.ino[f.dir[path]].kind]

\* os.stat: the inode the path resolves to, symlinks followed
os_stat(f, path) ==
    LET r == Resolve(f, path) IN
    IF r.err # "OK" THEN [err |-> r.err, ino |-> NoIno, nlink |-> 0, kind |-> "free"]
    ELSE [err |-> "OK", ino |-> r.ino, nlink |-> f.ino[r.ino].nlink, kind |-> f.ino[r.ino].kind]

\* os.path.islink: lstat, and False when lstat raises
os_path_islink(f, path) ==
    LET st == os_lstat(f, path) IN
    IF st.err # "OK" THEN FALSE ELSE st.kind = "symlink"

inode_following(f, path) ==
    LET st == os_stat(f, path) IN [err |-> st.err, ino |-> st.ino]

\* System.inode: os.lstat(path).st_ino
inode(f, path) ==
    LET st == os_lstat(f, path) IN [err |-> st.err, ino |-> st.ino]

is_symlink_following(f, path) ==
    LET st == os_stat(f, path) IN IF st.err # "OK" THEN FALSE ELSE st.kind = "symlink"

\* System.is_symlink: os.path.islink(path)
is_symlink(f, path) == os_path_islink(f, path)

is_hardlink_nofollow(f, path) ==
    LET st == os_lstat(f, path) IN [err |-> st.err, flag |-> st.err = "OK" /\ st.nlink > 1]

\* System.is_hardlink: os.stat(path).st_nlink > 1
is_hardlink(f, path) ==
    LET st == os_stat(f, path) IN [err |-> st.err, flag |-> st.err = "OK" /\ st.nlink > 1]

\* reading a file through a path: open(path).read()
ReadFile(f, path) ==
    LET r == Resolve(f, path) IN
    IF r.err # "OK" THEN [err |-> r.err, data |-> 0]
    ELSE [err |-> "OK", data |-> f.ino[r.ino].data]

\* ------------------------------------------------------------- reflink
\* what the host answers during one reflink call
NoEnv == [ioctl |-> "OK", unlinkFails |-> FALSE, libc |-> "OK", fallback |-> "OK",
          hasClonefile |-> TRUE, clone |-> "OK"]

LinuxEnvs == {[NoEnv EXCEPT !.ioctl = i, !.unlinkFails = u] :
                 i \in {"OK", "EOPNOTSUPP"}, u \in BOOLEAN}

DarwinEnvs ==
    {[NoEnv EXCEPT !.libc = "EACCES"],
     [NoEnv EXCEPT !.libc = "ENOENT", !.fallback = "ENOENT"],
     [NoEnv EXCEPT !.hasClonefile = FALSE],
     [NoEnv EXCEPT !.libc = "ENOENT", !.hasClonefile = FALSE],
     NoEnv,
     [NoEnv EXCEPT !.libc = "ENOENT"],
     [NoEnv EXCEPT !.clone = "ENOTSUP"]}

Envs(system) ==
    IF system = "Linux" THEN LinuxEnvs
    ELSE IF system = "Darwin" THEN DarwinEnvs
    ELSE {NoEnv}

Raised(f, e, stage) == [fs |-> f, err |-> e, stage |-> stage, cleanup |-> "none"]

cleanup_skipped(f, dst, primary, stage, env) ==
    [fs |-> f, err |-> primary, stage |-> stage, cleanup |-> "none"]

cleanup_and_raise_nosuppress(f, dst, primary, stage, env) ==
    LET u == IF env.unlinkFails THEN [fs |-> f, err |-> "EACCES"] ELSE os_unlink(f, dst) IN
    [fs |-> u.fs, err |-> IF u.err # "OK" THEN u.err ELSE primary, stage |-> stage,
     cleanup |-> u.err]

\* except OSError: with suppress(OSError): os.unlink(dst); raise
cleanup_and_raise(f, dst, primary, stage, env) ==
    LET u == IF env.unlinkFails THEN [fs |-> f, err |-> "EACCES"] ELSE os_unlink(f, dst) IN
    [fs |-> u.fs, err |-> primary, stage |-> stage, cleanup |-> u.err]

\* System._reflink_linux
reflink_linux(f, src, dst, mask, env) ==
    LET s == Resolve(f, src) IN
    IF s.err # "OK" THEN cleanup_and_raise(f, dst, s.err, "open_src", env)
    ELSE LET d == open_wb(f, dst, mask) IN
         IF d.err # "OK" THEN cleanup_and_raise(d.fs, dst, d.err, "open_dst", env)
         ELSE IF env.ioctl # "OK" THEN cleanup_and_raise(d.fs, dst, env.ioctl, "ioctl", env)
         ELSE [fs |-> [d.fs EXCEPT !.ino[d.ino].data = d.fs.ino[s.ino].data],
               err |-> "OK", stage |-> "done", cleanup |-> "none"]

\* clonefile(2) with flags 0: src followed, dst must not exist, mode inherited
os_clonefile(f, src, dst, env) ==
    LET s == Resolve(f, src) IN
    IF s.err # "OK" THEN [fs |-> f, err |-> s.err]
    ELSE IF f.dir[dst] # NoIno THEN [fs |-> f, err |-> "EEXIST"]
    ELSE IF env.clone # "OK" THEN [fs |-> f, err |-> env.clone]
    ELSE IF NoSpace(f) THEN [fs |-> f, err |-> "ENOSPC"]
    ELSE [fs |-> Create(f, dst, [f.ino[s.ino] EXCEPT !.nlink = 1]), err |-> "OK"]

\* System._reflink_darwin
reflink_darwin(f, src, dst, env) ==
    IF env.libc # "OK" /\ env.libc # "ENOENT" THEN Raised(f, env.libc, "load")
    ELSE IF env.libc = "ENOENT" /\ env.fallback # "OK" THEN Raised(f, env.fallback, "load")
    ELSE IF ~env.hasClonefile THEN Raised(f, "ENOTSUP", "lookup")
    ELSE LET c == os_clonefile(f, src, dst, env) IN
         IF c.err # "OK" THEN Raised(c.fs, c.err, "clonefile")
         ELSE [fs |-> c.fs, err |-> "OK", stage |-> "done", cleanup |-> "none"]

\* dvc.utils.fs.umask as read by reflink
utils_fs_umask(mask) == mask

reflink_unguarded(f, system, mask, source, link_name, env) ==
    LET r == IF system = "Darwin" THEN reflink_darwin(f, source, link_name, env)
             ELSE IF system = "Linux" THEN reflink_linux(f, source, link_name, mask, env)
             ELSE Raised(f, "ENOTSUP", "dispatch")
        c == os_chmod(r.fs, link_name, AndNot(MODE_RW, utils_fs_umask(mask)))
    IN [fs |-> c.fs, err |-> IF r.err # "OK" /\ r.stage # "dispatch" THEN r.err ELSE c.err,
        stage |-> r.stage, cleanup |-> r.cleanup, chmodded |-> TRUE]

reflink_nochmod(f, system, mask, source, link_name, env) ==
    LET r == IF system = "Darwin" THEN reflink_darwin(f, source, link_name, env)
             ELSE IF system = "Linux" THEN reflink_linux(f, source, link_name, mask, env)
             ELSE Raised(f, "ENOTSUP", "dispatch")
    IN [fs |-> r.fs, err |-> r.err, stage |-> r.stage, cleanup |-> r.cleanup,
        chmodded |-> FALSE]

\* System.reflink: dispatch on platform.system(), then chmod the clone
reflink_result(f, system, mask, source, link_name, env) ==
    LET r == IF system = "Darwin" THEN reflink_darwin(f, source, link_name, env)
             ELSE IF system = "Linux" THEN reflink_linux(f, source, link_name, mask, env)
             ELSE Raised(f, "ENOTSUP", "dispatch")
    IN IF r.err # "OK"
       THEN [fs |-> r.fs, err |-> r.err, stage |-> r.stage, cleanup |-> r.cleanup,
             chmodded |-> FALSE]
       ELSE [fs |-> os_chmod(r.fs, link_name, AndNot(MODE_RW, utils_fs_umask(mask))).fs,
             err |-> "OK", stage |-> r.stage, cleanup |-> r.cleanup, chmodded |-> TRUE]

\* ------------------------------------------------------------- actions
\* the last call: which operation, and what its caller saw
NoCall == [op |-> "none", err |-> "OK", stage |-> "none", cleanup |-> "none",
           chmodded |-> FALSE, src |-> "", dst |-> "", env |-> NoEnv]

\* the record of a call: its arguments are kept when it succeeded (a reflink
\* call keeps them, and what the host answered, also when it failed)
Called(op, source, link_name, err) ==
    [NoCall EXCEPT !.op = op, !.err = err,
                   !.src = IF err = "OK" THEN source ELSE "",
                   !.dst = IF err = "OK" THEN link_name ELSE ""]

\* link(2) follows a symlink source on Darwin and not on Linux
LinkFollows(system) ==
    IF system = "Linux" THEN {FALSE} ELSE IF system = "Darwin" THEN {TRUE} ELSE BOOLEAN

FsInit ==
    /\ fs = EmptyFs
    /\ umask \in Umasks
    /\ platform \in Platforms
    /\ last = NoCall

hardlink_force(source, link_name) ==
    \E follow \in LinkFollows(platform) :
        \E r \in {os_link(os_unlink(fs, link_name).fs, follow, source, link_name)} :
        /\ fs' = r.fs
        /\ last' = Called("hardlink", source, link_name, r.err)
        /\ UNCHANGED <<umask, platform, wizvars>>

hardlink_copy(source, link_name) ==
    \E r \in {os_link(fs, FALSE, source, link_name)} :
        /\ fs' = IF r.err # "OK" \/ NoSpace(fs) THEN fs
                 ELSE Create(fs, link_name, fs.ino[fs.dir[source]])
        /\ last' = Called("hardlink", source, link_name,
                          IF r.err = "OK" /\ NoSpace(fs) THEN "ENOSPC" ELSE r.err)
        /\ UNCHANGED <<umask, platform, wizvars>>

\* System.hardlink
hardlink(source, link_name) ==
    \E follow \in LinkFollows(platform) :
        \E r \in {os_link(fs, follow, source, link_name)} :
        /\ fs' = r.fs
        /\ last' = Called("hardlink", source, link_name, r.err)
        /\ UNCHANGED <<umask, platform, wizvars>>

\* System.symlink
symlink(source, link_name) ==
    \E r \in {os_symlink(fs, source, link_name)} :
    /\ fs' = r.fs
    /\ last' = Called("symlink", source, link_name, r.err)
    /\ UNCHANGED <<umask, platform, wizvars>>

\* System.reflink, the host answering env
reflink_with(source, link_name, env) ==
    \E r \in {reflink_result(fs, platform, umask, source, link_name, env)} :
        /\ fs' = r.fs
        /\ last' = [Called("reflink", source, link_name, r.err) EXCEPT
                        !.stage = r.stage, !.cleanup = r.cleanup, !.chmodded = r.chmodded,
                        !.src = source, !.dst = link_name, !.env = env]
        /\ UNCHANGED <<umask, platform, wizvars>>

\* System.reflink
reflink(source, link_name) ==
    \E env \in Envs(platform) : reflink_with(source, link_name, env)

\* the caller writes content through a path: open(path, "w").write(content)
WriteFile(path, content) ==
    \E d \in {open_wb(fs, path, umask)} :
    /\ fs' = IF d.err # "OK" THEN d.fs ELSE [d.fs EXCEPT !.ino[d.ino].data = content]
    /\ last' = Called("write", "", path, d.err)
    /\ UNCHANGED <<umask, platform, wizvars>>

\* the caller deletes a path
DeleteFile(path) ==
    \E r \in {os_unlink(fs, path)} :
    /\ fs' = r.fs
    /\ last' = Called("delete", path, "", r.err)
    /\ UNCHANGED <<umask, platform, wizvars>>

\* the process changes its file-creation mask: os.umask(mask)
SetUmask(mask) ==
    /\ mask # umask
    /\ umask' = mask
    /\ last' = [NoCall EXCEPT !.op = "umask"]
    /\ UNCHANGED <<fs, platform, wizvars>>

\* the paths the caller of reflink writes and symlinks itself
SeedPaths == {"a.txt", "b.txt"}

\* reflink between any two paths, over files and symlinks its caller made
FsNext ==
    \/ \E s \in SeedPaths, t \in SeedPaths : symlink(s, t)
    \/ \E s \in Paths, t \in Paths : reflink(s, t)
    \/ \E p \in SeedPaths : WriteFile(p, 1)
    \/ \E p \in Paths : DeleteFile(p)
    \/ \E m \in Umasks : SetUmask(m)

\* hardlinks and symlinks alone, every content written
LinkNext ==
    \/ \E s \in Paths, t \in Paths : hardlink(s, t)
    \/ \E s \in Paths, t \in Paths : symlink(s, t)
    \/ \E p \in Paths, c \in Contents \ {0} : WriteFile(p, c)
    \/ \E p \in Paths : DeleteFile(p)

\* ------------------------------------------------------------- init wizard
Keys == {"cmd", "code", "data", "models", "params", "metrics", "plots", "live"}

\* init's arguments: name (`""` is None), type, defaults, overrides, flags
InitArgs ==
    [name : {"", "train"}, type : {"default", "live"},
     defaults : {Keys, {}},
     overrides : {{}, {"cmd", "params"}},
     interactive : BOOLEAN, force : BOOLEAN]

\* what the user and the collaborators answer during one init call
AllFine == [answers |-> Keys, interrupt |-> FALSE, confirm |-> TRUE, loadable |-> TRUE,
            fails |-> "none"]

InitEnvs ==
    {AllFine, [AllFine EXCEPT !.answers = {}], [AllFine EXCEPT !.interrupt = TRUE],
     [AllFine EXCEPT !.confirm = FALSE], [AllFine EXCEPT !.loadable = FALSE]}
    \cup {[AllFine EXCEPT !.fails = x] : x \in {"create", "dump", "ignore_outs"}}
    \cup {[AllFine EXCEPT !.fails = x, !.confirm = FALSE] : x \in {"dump", "ignore_outs"}}

\* _check_stage_exists raises
stage_exists(dvcf, name, force) == ~force /\ dvcf.exists /\ name \in dvcf.stages

\* init_interactive: the keys the prompts return a value for
init_interactive(provided, live, env) ==
    LET primary == {"cmd", "code", "data", "models", "params"} \ provided
        secondary == (IF live THEN {"live"} ELSE {"metrics", "plots"}) \ provided
    IN IF primary \cup secondary = {} THEN {}
       ELSE (primary \cup secondary) \cap (env.answers \cup {"cmd"})

InitDone(dvcf, ign, name, result, log) ==
    [dvcfile |-> dvcf, ignored |-> ign, name |-> name, result |-> result, log |-> log]

\* init, from the confirmation on
init_write_unconfirmed(dvcf, ign, name, a, env, log) ==
    IF env.fails = "dump" THEN InitDone(dvcf, ign, name, "DumpError", Append(log, "dump"))
    ELSE LET d == [exists |-> TRUE, stages |-> dvcf.stages \cup {name}]
             l == Append(log, "dump")
         IN IF env.fails = "ignore_outs"
            THEN InitDone(d, ign, name, "IgnoreError", Append(l, "ignore_outs"))
            ELSE InitDone(d, ign \cup {name}, name, "ok", Append(l, "ignore_outs"))

init_write(dvcf, ign, name, a, env, log) ==
    IF ~a.interactive \/ env.confirm
    THEN IF env.fails = "dump" THEN InitDone(dvcf, ign, name, "DumpError", Append(log, "dump"))
         ELSE LET d == [exists |-> TRUE, stages |-> dvcf.stages \cup {name}]
                  l == Append(log, "dump")
              IN IF env.fails = "ignore_outs"
                 THEN InitDone(d, ign, name, "IgnoreError", Append(l, "ignore_outs"))
                 ELSE InitDone(d, ign \cup {name}, name, "ok", Append(l, "ignore_outs"))
    ELSE InitDone(dvcf, ign, name, "Aborting", log)

\* init, from the assembled context on
init_create(dvcf, ign, name, a, env, context, log) ==
    IF "cmd" \notin context THEN InitDone(dvcf, ign, name, "AssertionError", log)
    ELSE IF "params" \in context /\ ~env.loadable
         THEN InitDone(dvcf, ign, name, "KeyError", log)
    ELSE IF env.fails = "create"
         THEN InitDone(dvcf, ign, name, "StageError", Append(log, "create"))
    ELSE init_write(dvcf, ign, name, a, env,
                    IF a.interactive THEN log \o <<"create", "confirm">>
                    ELSE Append(log, "create"))

\* init
init_noforce_check(dvcf, ign, a, env) ==
    LET name == IF a.name = "" THEN a.type ELSE a.name
        with_live == a.type = "live"
    IN IF a.interactive
       THEN IF env.interrupt /\ {"cmd", "code", "data", "models", "params"} \ a.overrides # {}
            THEN InitDone(dvcf, ign, name, "KeyboardInterrupt", <<"check", "prompt">>)
            ELSE init_create(dvcf, ign, name, a, env,
                             init_interactive(a.overrides, with_live, env) \cup a.overrides,
                             <<"check", "prompt">>)
       ELSE IF with_live /\ ~({"metrics", "params"} \subseteq a.defaults)
            THEN InitDone(dvcf, ign, name, "KeyError", <<"check">>)
       ELSE IF ~with_live /\ "live" \notin a.defaults
            THEN InitDone(dvcf, ign, name, "KeyError", <<"check">>)
       ELSE init_create(dvcf, ign, name, a, env,
                        (a.defaults \ (IF with_live THEN {"metrics", "params"} ELSE {"live"}))
                            \cup a.overrides,
                        <<"check">>)

init_result(dvcf, ign, a, env) ==
    LET name == IF a.name = "" THEN a.type ELSE a.name IN
    IF stage_exists(dvcf, name, a.force)
    THEN InitDone(dvcf, ign, name, "DuplicateStageName", <<"check">>)
    ELSE init_noforce_check(dvcf, ign, a, env)

NoInit == [op |-> "none", name |-> "", force |-> FALSE, interactive |-> FALSE,
           confirm |-> FALSE, existed |-> FALSE, had |-> FALSE, result |-> "none",
           log |-> <<>>]

WizInit ==
    /\ dvcfile = [exists |-> FALSE, stages |-> {}]
    /\ ignored = {}
    /\ call = NoInit

\* one call of init(repo, name, type, defaults, overrides, interactive, force)
init(a) ==
    \E env \in InitEnvs :
    \E r \in {init_result(dvcfile, ignored, a, env)} :
        /\ dvcfile' = r.dvcfile
        /\ ignored' = r.ignored
        /\ call' = [op |-> "init", name |-> r.name, force |-> a.force,
                    interactive |-> a.interactive, confirm |-> env.confirm,
                    existed |-> dvcfile.exists, had |-> r.name \in dvcfile.stages,
                    result |-> r.result, log |-> r.log]
        /\ UNCHANGED fsvars

\* the user deletes dvc.yaml
RemoveDvcfile ==
    /\ dvcfile.exists
    /\ dvcfile' = [exists |-> FALSE, stages |-> {}]
    /\ call' = [NoInit EXCEPT !.op = "remove"]
    /\ UNCHANGED <<ignored, fsvars>>

\* the user empties dvc.yaml of its stages
ClearStages ==
    /\ dvcfile.exists /\ dvcfile.stages # {}
    /\ dvcfile' = [exists |-> TRUE, stages |-> {}]
    /\ call' = [NoInit EXCEPT !.op = "clear"]
    /\ UNCHANGED <<ignored, fsvars>>

WizNext ==
    \/ \E a \in InitArgs : init(a)
    \/ RemoveDvcfile
    \/ ClearStages

Init == FsInit /\ WizInit

Spec == Init /\ [][FsNext]_vars

SpecLinks == Init /\ [][LinkNext]_vars

\* the wizard never touches the link layer: one host is enough
InitOneHost == Init /\ platform = "Linux" /\ umask = 18

SpecInit == InitOneHost /\ [][WizNext]_vars

\* ------------------------------------------------------------- properties
FsErrors == {"EEXIST", "ENOENT", "ELOOP", "ENOSPC", "EACCES", "ENOTSUP", "EOPNOTSUPP"}

\* a file can be reached through the path (os.path.exists)
FileAt(f, path) == os_stat(f, path).err = "OK"

\* st_mode of what the path resolves to
ModeAt(f, path) == f.ino[os_stat(f, path).ino].mode

\* the number of directory entries naming an inode
Entries(f, i) == Cardinality({q \in Paths : f.dir[q] = i})

\* the library was loaded, by its name or by the fallback path
Loaded(env) == env.libc = "OK" \/ (env.libc = "ENOENT" /\ env.fallback = "OK")

\* the step is a reflink call whose clone ioctl or clonefile call returned an error
CloneFailed ==
    /\ last'.op = "reflink"
    /\ \/ /\ platform = "Linux" /\ last'.env.ioctl # "OK"
          /\ os_stat(fs, last'.src).err = "OK"
          /\ open_wb(fs, last'.dst, umask).err = "OK"
       \/ /\ platform = "Darwin" /\ Loaded(last'.env) /\ last'.env.hasClonefile
          /\ os_clonefile(fs, last'.src, last'.dst, last'.env).err # "OK"

\* C1 as stated: whenever the clone ioctl (Linux) or the clonefile call (Darwin)
\* returns an error, no file exists at target once reflink has returned.
C1_NoFileAfterFailure ==
    [][CloneFailed => ~FileAt(fs', last'.dst)]_vars

\* C1 amended: after a failed clone ioctl (Linux) no directory entry is left at
\* target unless the best-effort deletion itself failed; after a failed clonefile
\* (Darwin) reflink deletes nothing and the filesystem is as before the call.
C1_NoFileUnlessCleanupFailed ==
    [][CloneFailed =>
          /\ last'.err \in FsErrors
          /\ (platform = "Linux" /\ last'.cleanup \notin FsErrors)
                => fs'.dir[last'.dst] = NoIno
          /\ platform = "Darwin" => fs' = fs]_vars

C1_Witness ==
    /\ last.op = "reflink" /\ last.stage = "ioctl" /\ last.cleanup = "OK"
    /\ \E p \in Paths : fs.dir[p] = NoIno

\* C2: with no clone strategy (a platform other than Linux and Darwin, or Darwin
\* with clonefile absent from the loaded library) reflink fails with ENOTSUP,
\* changes nothing in the filesystem and never reaches the chmod.
C2_UnsupportedFailsCleanly ==
    [][(/\ last'.op = "reflink"
        /\ \/ platform \notin {"Linux", "Darwin"}
           \/ platform = "Darwin" /\ Loaded(last'.env) /\ ~last'.env.hasClonefile)
          => (last'.err = "ENOTSUP" /\ fs' = fs /\ ~last'.chmodded)]_vars

C2_Witness ==
    /\ last.op = "reflink" /\ last.err = "ENOTSUP"
    /\ \/ platform = "Other" /\ last.stage = "dispatch"
       \/ platform = "Darwin" /\ last.stage = "lookup"
    /\ \E p \in Paths : FileAt(fs, p)

C4_HardlinkExistingTarget ==
    [][\A s, t \in Paths : (last'.op = "hardlink" /\ fs.dir[t] # NoIno /\ hardlink(s, t)) =>
          (last'.err \in FsErrors /\ fs' = fs)]_vars

C4_Witness ==
    /\ last.op = "hardlink" /\ last.err = "EEXIST"
    /\ \E p, q \in Paths : p # q /\ FileAt(fs, p) /\ FileAt(fs, q)

\* C5: after hardlink(s, t) of an existing file succeeds, is_hardlink(s) is true
\* and both paths name one storage object; a write through one path of a storage
\* object is what a read through any other of its paths returns.
C5_HardlinkSharesStorage ==
    [][/\ (/\ last'.op = "hardlink" /\ last'.err = "OK"
            /\ os_lstat(fs, last'.src).kind = "file") =>
                LET s == last'.src
                    t == last'.dst
                IN
                /\ is_hardlink(fs', s) = [err |-> "OK", flag |-> TRUE]
                /\ os_stat(fs', t).err = "OK"
                /\ os_stat(fs', s).ino = os_stat(fs', t).ino
       /\ (last'.op = "write" /\ last'.err = "OK") =>
                LET t == last'.dst
                IN
                \A s \in Paths :
                    (os_stat(fs, s).err = "OK" /\ os_stat(fs, s).ino = os_stat(fs, t).ino)
                        => /\ ReadFile(fs', s).err = "OK"
                           /\ ReadFile(fs', s) = ReadFile(fs', t)
                           /\ \E c \in Contents \ {0} :
                                 WriteFile(t, c) /\ ReadFile(fs', s).data = c]_vars

\* "world" written through one name of a hardlinked file and read through another
C5_Witness ==
    /\ last.op = "write" /\ last.err = "OK"
    /\ \E s \in Paths :
          /\ s # last.dst
          /\ os_lstat(fs, s).kind = "file"
          /\ fs.dir[s] = fs.dir[last.dst]
          /\ is_hardlink(fs, s).flag
          /\ ReadFile(fs, s).data = 2

\* C6: after symlink(s, t) of an existing file succeeds, is_symlink(t) is true
\* and is_symlink(s) is false; when the file a symlink points to is deleted,
\* is_symlink of the link stays true and reading through the link fails.
C6_SymlinkSurvivesDeletion ==
    [][/\ (/\ last'.op = "symlink" /\ last'.err = "OK"
            /\ os_lstat(fs, last'.src).kind = "file") =>
                (is_symlink(fs', last'.dst) /\ ~is_symlink(fs', last'.src))
       /\ (last'.op = "delete" /\ last'.err = "OK") =>
                LET p == last'.src
                IN
                \A t \in Paths \ {p} :
                    (os_lstat(fs, t).kind = "symlink" /\ fs.ino[fs.dir[t]].link = p)
                        => (is_symlink(fs', t) /\ ReadFile(fs', t).err \in FsErrors)]_vars

C6_Witness ==
    /\ last.op = "delete" /\ last.err = "OK"
    /\ \E t \in Paths :
          /\ is_symlink(fs, t)
          /\ fs.ino[fs.dir[t]].link = last.src
          /\ ReadFile(fs, t).err = "ENOENT"

\* C7: is_hardlink(path) is true exactly when the storage object the path
\* resolves to has more than one directory entry, and fails with a filesystem
\* error when the path does not exist or resolves to nothing.
C7_IsHardlinkedCountsEntries ==
    \A p \in Paths :
        LET r == Resolve(fs, p)
            h == is_hardlink(fs, p)
        IN /\ r.err = "OK" => (h.err = "OK" /\ (h.flag <=> Entries(fs, r.ino) > 1))
           /\ r.err # "OK" => h.err \in FsErrors

\* a symlink to a file that has two names
C7_Witness ==
    \E p \in Paths :
        /\ os_lstat(fs, p).kind = "symlink"
        /\ os_lstat(fs, p).nlink = 1
        /\ is_hardlink(fs, p) = [err |-> "OK", flag |-> TRUE]

\* C8: inode(path) fails exactly when path has no directory entry; for a symlink
\* it is the identifier of the symlink itself, never that of a file, also when
\* the link dangles.
C8_InodeDoesNotFollow ==
    \A p \in Paths :
        LET i == inode(fs, p) IN
        /\ (i.err # "OK") <=> (fs.dir[p] = NoIno)
        /\ i.err # "OK" => i.err \in FsErrors
        /\ os_lstat(fs, p).kind = "symlink" =>
              /\ i.err = "OK"
              /\ fs.ino[i.ino].kind = "symlink"
              /\ \A q \in Paths : os_lstat(fs, q).kind = "file" => i.ino # inode(fs, q).ino

C8_Witness ==
    \E p \in Paths :
        /\ os_lstat(fs, p).kind = "symlink"
        /\ os_stat(fs, p).err = "OK"
        /\ inode(fs, p).ino # os_stat(fs, p).ino

\* C9: when both opens succeed and the clone ioctl fails on the Linux path,
\* reflink attempts to delete target (it is gone unless that deletion failed) and
\* the caller sees the ioctl's error, also when the deletion failed.
C9_OriginalErrorPropagates ==
    [][(/\ last'.op = "reflink"
        /\ platform = "Linux"
        /\ last'.env.ioctl # "OK"
        /\ os_stat(fs, last'.src).err = "OK"
        /\ open_wb(fs, last'.dst, umask).err = "OK")
          => /\ last'.err = last'.env.ioctl
             /\ last'.cleanup # "none"
             /\ last'.env.unlinkFails => last'.cleanup \in FsErrors
             /\ ~last'.env.unlinkFails => fs'.dir[last'.dst] = NoIno]_vars

C9_Witness ==
    /\ last.op = "reflink" /\ last.stage = "ioctl"
    /\ last.cleanup = "EACCES" /\ last.err = "EOPNOTSUPP"

Has(log, e) == \E i \in 1..Len(log) : log[i] = e

\* C10: init dumps the stage and ignores its outputs only if the duplicate-name
\* check passed and, when interactive, the user confirmed; a duplicate without
\* force raises DuplicateStageName and a declined confirmation raises
\* "Aborting ...", both without dump or ignore_outs; dump precedes ignore_outs.
C10_DumpOnlyAfterCheckAndConfirm ==
    call.op = "init" =>
        LET passed == call.force \/ ~call.existed \/ ~call.had
            dumped == Has(call.log, "dump")
            ign == Has(call.log, "ignore_outs")
        IN /\ (dumped \/ ign) => (passed /\ (call.interactive => call.confirm))
           /\ ~passed => (call.result = "DuplicateStageName" /\ ~dumped /\ ~ign)
           /\ (call.interactive /\ Has(call.log, "confirm") /\ ~call.confirm)
                 => (call.result = "Aborting" /\ ~dumped /\ ~ign)
           /\ \A i, j \in 1..Len(call.log) :
                 (call.log[i] = "dump" /\ call.log[j] = "ignore_outs") => i < j
           /\ ign => dumped
           /\ call.result = "ok" => (dumped /\ ign /\ call.name \in dvcfile.stages)

\* a confirmed interactive init that overwrites an existing stage with force
C10_Witness ==
    /\ call.op = "init" /\ call.result = "ok"
    /\ call.interactive /\ call.confirm
    /\ call.existed /\ call.had /\ call.force
    /\ call.log = <<"check", "prompt", "create", "confirm", "dump", "ignore_outs">>

====
